---- MODULE Spec2Model ----
(***************************************************************************)
(* Static IP router (Project4/router.cpp): address utilities, the two     *)
(* table loaders, the longest-prefix-match forwarding decision and the    *)
(* main loop that turns a stream of destination lines into decision lines.*)
(*                                                                         *)
(* A uint32_t is a function 1..W -> {0,1}; index 1 is the most            *)
(* significant bit.  Text is modelled by its tokens: a dotted address is  *)
(* the sequence of the decimal fields the stream extraction reads, a mask *)
(* field is its sequence of decimal digits, a line is a record naming its *)
(* shape (which of the program's regular expressions it matches) and its  *)
(* fields.                                                                 *)
(***************************************************************************)
EXTENDS Integers, Sequences, FiniteSets, TLC

VARIABLES
  pc,            \* position of main: "parseInterfaces", "parseRoutes", "mainLoop", "done";
                 \* "exited" after exit(-1) or return -1, "terminated" after an uncaught exception
  shiftUB,       \* what this build does for a shift count outside 0..W-1 (undefined behaviour)
  configLines,   \* lines of the interface file read so far by getline
  routeLines,    \* lines of the route file read so far by getline
  inputLines,    \* lines of the destination stream read so far by getline
  interfaces,    \* std::vector<InterfaceEntry>
  routes,        \* std::vector<RouteEntry>
  dests,         \* the uint32_t each processed input line was converted to, in order
  out,           \* the decision lines written so far
  argIp,         \* applyMask, called on its own: the ip argument
  argMaskLen,    \* applyMask, called on its own: the maskLen argument
  result         \* applyMask, called on its own: <<>> before the call, <<value>> after

vars == <<pc, shiftUB, configLines, routeLines, inputLines, interfaces, routes,
          dests, out, argIp, argMaskLen, result>>

(***************************************************************************)
(* Bounds of the model and constants of the program.                      *)
(***************************************************************************)
W == 32                  \* bits of a uint32_t
IntMax == 2147483647     \* largest int: std::stoi throws std::out_of_range above it
MaxConfigLines == 2      \* lines read from the interface file
MaxRouteLines == 2       \* lines read from the route file
MaxInputLines == 2       \* lines read from the destination stream
MaxMaskLen == 40         \* largest maskLen handed to applyMask on its own

(***************************************************************************)
(* 32-bit unsigned arithmetic.                                             *)
(***************************************************************************)
Zero == [i \in 1..W |-> 0]

\* The literal 0xFFFFFFFF.
AllOnes == [i \in 1..W |-> 1]

\* The uint32_t holding the natural number n (n is below 2^(W-1) in this model).
ToWord(n) == [i \in 1..W |-> IF i = 1 THEN 0 ELSE (n \div 2^(W - i)) % 2]

\* w << s for a shift count 0 <= s < W: bits shifted out at the top are lost.
Shl(w, s) == [i \in 1..W |-> IF i + s <= W THEN w[i + s] ELSE 0]

\* w >> s for a shift count 0 <= s < W.
Shr(w, s) == [i \in 1..W |-> IF i - s >= 1 THEN w[i - s] ELSE 0]

BitAnd(a, b) == [i \in 1..W |-> IF a[i] = 1 /\ b[i] = 1 THEN 1 ELSE 0]

BitOr(a, b) == [i \in 1..W |-> IF a[i] = 1 \/ b[i] = 1 THEN 1 ELSE 0]

\* w << s where s is not in 0..W-1: undefined behaviour.  The count reaches a
\* hardware shift at run time; a build either uses the count modulo W (x86,
\* AArch64) or shifts every bit out (counts taken from the low byte, ARM).
ShlOutOfRange(w, s) == IF shiftUB = "wrap" THEN Shl(w, s % W) ELSE Zero

\* The decimal value of (w & 0xFF).
LowByte(w) ==
  LET b == BitAnd(w, ToWord(255))
  IN  b[W - 7] * 128 + b[W - 6] * 64 + b[W - 5] * 32 + b[W - 4] * 16
        + b[W - 3] * 8 + b[W - 2] * 4 + b[W - 1] * 2 + b[W]

(***************************************************************************)
(* Helper functions of router.cpp.                                         *)
(***************************************************************************)

\* ipToNum: ss >> b1 >> dot >> b2 >> dot >> b3 >> dot >> b4.  ipStr is the
\* sequence of fields the extraction reads before it fails or the text ends;
\* a field it never reads keeps its uninitialised value uninit[k].
ipToNum(ipStr, uninit) ==
  LET b(k) == IF k <= Len(ipStr) THEN ToWord(ipStr[k]) ELSE ToWord(uninit[k])
  IN  BitOr(BitOr(BitOr(Shl(b(1), 24), Shl(b(2), 16)), Shl(b(3), 8)), b(4))

\* numToIP: the four decimal octets of the text, most significant first.
numToIP(ip) ==
  <<LowByte(Shr(ip, 24)), LowByte(Shr(ip, 16)), LowByte(Shr(ip, 8)), LowByte(ip)>>

\* applyMask with the special case for 0 removed: the shift count is then W.
applyMaskNoZeroCase(ip, maskLen) ==
  LET s == W - maskLen
      mask == IF s >= 0 /\ s < W THEN Shl(AllOnes, s) ELSE ShlOutOfRange(AllOnes, s)
  IN  BitAnd(ip, mask)

applyMask(ip, maskLen) ==
  IF maskLen = 0
    THEN Zero
    ELSE LET s == W - maskLen
             mask == IF s >= 0 /\ s < W THEN Shl(AllOnes, s)
                                        ELSE ShlOutOfRange(AllOnes, s)
         IN  BitAnd(ip, mask)

\* std::stoi on a string of decimal digits: the value, or the std::out_of_range
\* it throws when the value does not fit an int.
RECURSIVE stoiFrom(_, _, _)
stoiFrom(str, i, acc) ==
  IF i > Len(str) THEN [throws |-> FALSE, value |-> acc]
  ELSE IF acc > (IntMax - str[i]) \div 10 THEN [throws |-> TRUE, value |-> 0]
  ELSE stoiFrom(str, i + 1, acc * 10 + str[i])

stoi(str) == stoiFrom(str, 1, 0)

(***************************************************************************)
(* Lines of text.  shape says which of the program's tests a line passes: *)
(*   "empty"    line.empty()                                               *)
(*   "comment"  matches ^\s*#.*$                                           *)
(*   "space"    white space only: not empty, matches no pattern            *)
(*   "words"    other text, such as "garbage data here"                    *)
(*   "iface"    matches ^\s*([A-Za-z0-9]+)\s+([0-9\.]+)\/([0-9]+)\s*$      *)
(*   "route"    matches ^\s*([0-9\.]+)\/([0-9]+)\s+([0-9\.]+)\s*$          *)
(*   "addr"     a dotted address alone on the line                         *)
(***************************************************************************)
Line(shape, name, ip, mask, hop) ==
  [shape |-> shape, name |-> name, ip |-> ip, mask |-> mask, hop |-> hop]

EmptyLine == Line("empty", "", <<>>, <<>>, <<>>)
CommentLine == Line("comment", "", <<>>, <<>>, <<>>)
SpaceLine == Line("space", "", <<>>, <<>>, <<>>)
WordsLine == Line("words", "", <<>>, <<>>, <<>>)
IfaceLine(name, ip, mask) == Line("iface", name, ip, mask, <<>>)
RouteLine(ip, mask, hop) == Line("route", "", ip, mask, hop)
AddrLine(ip) == Line("addr", "", ip, <<>>, <<>>)

\* line.empty() || std::regex_match(line, std::regex(R"(^\s*#.*$)"))
skipLine(line) == line.shape = "empty" \/ line.shape = "comment"

\* std::regex_match(line, match, re) with the interface pattern
matchInterfaceRe(line) == line.shape = "iface"

\* std::regex_match(line, match, re) with the route pattern
matchRouteRe(line) == line.shape = "route"

\* The decimal fields ipToNum's extraction reads from a whole line: all of a
\* dotted address; the prefix of a route line (extraction stops at '/' after
\* four fields); nothing from white space (the stream ends before b1 is
\* written); a stored 0 for b1 when the text starts with a letter.
lineFields(line) ==
  CASE line.shape = "addr" -> line.ip
    [] line.shape = "route" -> line.ip
    [] line.shape = "space" -> <<>>
    [] OTHER -> <<0>>

(***************************************************************************)
(* Table loaders.  One call of the step operator is one pass of the       *)
(* while (getline(file, line)) loop body.                                  *)
(***************************************************************************)
InterfaceEntry(name, ip, maskLen, network) ==
  [name |-> name, ip |-> ip, maskLen |-> maskLen, network |-> network]

RouteEntry(network, maskLen, nextHop) ==
  [network |-> network, maskLen |-> maskLen, nextHop |-> nextHop]

\* parseInterfaces, were a line that matches no pattern to end the load.
parseInterfacesStepStopsOnBadLine(ifs, line, uninit) ==
  IF skipLine(line) THEN [table |-> ifs, thrown |-> FALSE]
  ELSE IF matchInterfaceRe(line)
    THEN LET ip == ipToNum(line.ip, uninit)
             m == stoi(line.mask)
         IN  IF m.throws
               THEN [table |-> ifs, thrown |-> TRUE]
               ELSE [table |-> Append(ifs, InterfaceEntry(line.name, ip, m.value,
                                                          applyMask(ip, m.value))),
                     thrown |-> FALSE]
    ELSE [table |-> ifs, thrown |-> TRUE]

\* The loop body of parseInterfaces: the vector after the line, and whether
\* std::stoi threw (nothing catches it: the program terminates).
parseInterfacesStep(ifs, line, uninit) ==
  IF skipLine(line) THEN [table |-> ifs, thrown |-> FALSE]
  ELSE IF matchInterfaceRe(line)
    THEN LET ip == ipToNum(line.ip, uninit)
             m == stoi(line.mask)
         IN  IF m.throws
               THEN [table |-> ifs, thrown |-> TRUE]
               ELSE [table |-> Append(ifs, InterfaceEntry(line.name, ip, m.value,
                                                          applyMask(ip, m.value))),
                     thrown |-> FALSE]
    ELSE [table |-> ifs, thrown |-> FALSE]

\* parseRoutes, were the prefix stored as written in the file.
parseRoutesStepUnmasked(rts, line, uninit, uninitHop) ==
  IF skipLine(line) THEN [table |-> rts, thrown |-> FALSE]
  ELSE IF matchRouteRe(line)
    THEN LET m == stoi(line.mask)
         IN  IF m.throws
               THEN [table |-> rts, thrown |-> TRUE]
               ELSE [table |-> Append(rts, RouteEntry(ipToNum(line.ip, uninit), m.value,
                                                      ipToNum(line.hop, uninitHop))),
                     thrown |-> FALSE]
    ELSE [table |-> rts, thrown |-> FALSE]

\* The loop body of parseRoutes.
parseRoutesStep(rts, line, uninit, uninitHop) ==
  IF skipLine(line) THEN [table |-> rts, thrown |-> FALSE]
  ELSE IF matchRouteRe(line)
    THEN LET m == stoi(line.mask)
         IN  IF m.throws
               THEN [table |-> rts, thrown |-> TRUE]
               ELSE [table |-> Append(rts, RouteEntry(applyMask(ipToNum(line.ip, uninit), m.value),
                                                      m.value,
                                                      ipToNum(line.hop, uninitHop))),
                     thrown |-> FALSE]
    ELSE [table |-> rts, thrown |-> FALSE]

(***************************************************************************)
(* Forwarding decision.  A pointer into a vector is an index; 0 is        *)
(* nullptr.                                                                *)
(***************************************************************************)
RECURSIVE findRouteFrom(_, _, _, _, _)
findRouteFrom(dest, rts, i, best, bestMask) ==
  IF i > Len(rts) THEN best
  ELSE IF applyMask(dest, rts[i].maskLen) = rts[i].network /\ rts[i].maskLen > bestMask
    THEN findRouteFrom(dest, rts, i + 1, i, rts[i].maskLen)
    ELSE findRouteFrom(dest, rts, i + 1, best, bestMask)

\* findRoute, were the scan to stop at the first matching route.
findRouteFirstMatch(dest, rts) ==
  LET M == {i \in 1..Len(rts) : applyMask(dest, rts[i].maskLen) = rts[i].network}
  IN  IF M = {} THEN 0 ELSE CHOOSE i \in M : \A j \in M : i <= j

\* findRoute, were the comparison r.maskLen >= bestMask.
findRouteLastOfEquals(dest, rts) ==
  LET M == {i \in 1..Len(rts) : applyMask(dest, rts[i].maskLen) = rts[i].network}
      top == {i \in M : \A j \in M : rts[j].maskLen <= rts[i].maskLen}
  IN  IF M = {} THEN 0 ELSE CHOOSE i \in top : \A j \in top : j <= i

\* findRoute, were bestMask to start at 0.
findRouteBestMaskZero(dest, rts) == findRouteFrom(dest, rts, 1, 0, 0)

findRoute(dest, rts) == findRouteFrom(dest, rts, 1, 0, -1)

RECURSIVE findOutgoingInterfaceFrom(_, _, _)
findOutgoingInterfaceFrom(nextHop, ifs, i) ==
  IF i > Len(ifs) THEN 0
  ELSE IF applyMask(nextHop, ifs[i].maskLen) = ifs[i].network THEN i
  ELSE findOutgoingInterfaceFrom(nextHop, ifs, i + 1)

\* findOutgoingInterface, were the loop to keep the last matching interface.
findOutgoingInterfaceLast(nextHop, ifs) ==
  LET M == {i \in 1..Len(ifs) : applyMask(nextHop, ifs[i].maskLen) = ifs[i].network}
  IN  IF M = {} THEN 0 ELSE CHOOSE i \in M : \A j \in M : j <= i

findOutgoingInterface(nextHop, ifs) == findOutgoingInterfaceFrom(nextHop, ifs, 1)

\* The four message shapes of the decision stream.
MsgDirect == "Packet now being sent to destination <ip>, leaving router from interface <name>"
MsgForwarded == "Packet destination is <ip>, leaving router from interface <name> to next hop <ip>"
MsgNoRoute == "<ip>: unreachable"
MsgBadNextHop == "Destination <ip> is unreachable."

Decision(msg, ip, name, hop) == [msg |-> msg, ip |-> ip, name |-> name, hop |-> hop]

\* processPacket: the line it writes to out.  The direct-delivery loop is
\* commented out in the source, so the decision starts at findRoute.
processPacket(dest, ifs, rts) ==
  LET route == findRoute(dest, rts)
  IN  IF route = 0
        THEN Decision(MsgNoRoute, numToIP(dest), "", <<>>)
        ELSE LET iface == findOutgoingInterface(rts[route].nextHop, ifs)
             IN  IF iface = 0
                   THEN Decision(MsgBadNextHop, numToIP(dest), "", <<>>)
                   ELSE Decision(MsgForwarded, numToIP(dest), ifs[iface].name,
                                 numToIP(rts[route].nextHop))

(***************************************************************************)
(* The environment: the lines the files hold and the values uninitialised *)
(* variables hold.                                                         *)
(***************************************************************************)
\* Values of b1..b4 that were never written (indeterminate).
UninitOctets == {<<0, 0, 0, 0>>, <<10, 200, 0, 1>>}

\* The indeterminate values one call of ipToNum(ipStr) may read: they matter
\* only when the call is made and the extraction stops before the fourth field.
UninitFor(called, ipStr) ==
  IF called /\ Len(ipStr) < 4 THEN UninitOctets ELSE {<<0, 0, 0, 0>>}

ShiftOutcomes == {"wrap", "zero"}

Mask0 == <<0>>
Mask8 == <<8>>
Mask16 == <<1, 6>>
Mask24 == <<2, 4>>
Mask32 == <<3, 2>>
Mask40 == <<4, 0>>
MaskHuge == <<9, 9, 9, 9, 9, 9, 9, 9, 9, 9>>

\* Files for the forwarding decision: overlapping interfaces; routes with a
\* longer and a shorter prefix, two equal prefixes, a default route whose next
\* hop is on no interface, and a mask length beyond the word.
CoreConfigLines ==
  { IfaceLine("eth0", <<192, 168, 1, 1>>, Mask24),
    IfaceLine("eth1", <<192, 168, 7, 7>>, Mask16) }

CoreRouteLines ==
  { RouteLine(<<10, 0, 0, 0>>, Mask8, <<192, 168, 1, 7>>),
    RouteLine(<<10, 1, 0, 0>>, Mask16, <<192, 168, 2, 9>>),
    RouteLine(<<10, 1, 0, 0>>, Mask16, <<192, 168, 1, 7>>),
    RouteLine(<<0, 0, 0, 0>>, Mask0, <<1, 1, 1, 1>>),
    RouteLine(<<10, 0, 0, 0>>, Mask40, <<192, 168, 2, 9>>) }

CoreInputLines == { AddrLine(<<10, 1, 2, 3>>), AddrLine(<<8, 8, 8, 8>>) }

\* Files for the loaders: every shape of line, prefixes with host bits, short
\* and overflowing addresses, mask lengths 32, 40 and one beyond int.
AllConfigLines ==
  { CommentLine, WordsLine,
    IfaceLine("eth0", <<192, 168, 1, 1>>, Mask24),
    IfaceLine("eth1", <<172, 16>>, Mask40),
    IfaceLine("eth2", <<1, 1, 1, 1>>, MaskHuge) }

AllRouteLines ==
  { SpaceLine,
    RouteLine(<<10, 1, 2, 3>>, Mask8, <<1, 1, 1, 1>>),
    RouteLine(<<999, 0, 0, 1>>, Mask32, <<2, 2>>),
    RouteLine(<<10, 0, 0, 0>>, Mask40, <<1, 1, 1, 1>>),
    RouteLine(<<0, 0, 0, 0>>, MaskHuge, <<1, 1, 1, 1>>) }

\* Files for the main loop: one interface, two routes, and a destination
\* stream with every shape of line.
StreamConfigLines == { IfaceLine("eth0", <<192, 168, 1, 1>>, Mask24) }

StreamRouteLines ==
  { RouteLine(<<10, 0, 0, 0>>, Mask8, <<192, 168, 1, 7>>),
    RouteLine(<<0, 0, 0, 0>>, Mask0, <<1, 1, 1, 1>>) }

StreamInputLines ==
  { AddrLine(<<10, 1, 2, 3>>), AddrLine(<<8, 8, 8, 8>>), AddrLine(<<192, 168, 1, 50>>),
    EmptyLine, CommentLine, SpaceLine, WordsLine }

MaskIps ==
  { ToWord(0), AllOnes, ipToNum(<<10, 1, 2, 3>>, <<0, 0, 0, 0>>),
    ipToNum(<<192, 168, 1, 50>>, <<0, 0, 0, 0>>), ipToNum(<<255, 255, 255, 254>>, <<0, 0, 0, 0>>),
    ipToNum(<<128, 0, 0, 1>>, <<0, 0, 0, 0>>) }

(***************************************************************************)
(* main.                                                                   *)
(***************************************************************************)
Init ==
  /\ pc = "parseInterfaces"
  /\ shiftUB \in ShiftOutcomes
  /\ configLines = <<>>
  /\ routeLines = <<>>
  /\ inputLines = <<>>
  /\ interfaces = <<>>
  /\ routes = <<>>
  /\ dests = <<>>
  /\ out = <<>>
  /\ argIp = Zero
  /\ argMaskLen = 0
  /\ result = <<>>

\* parseInterfaces: the interface file cannot be opened, exit(-1).
ParseInterfacesOpenFails ==
  /\ pc = "parseInterfaces"
  /\ configLines = <<>>
  /\ pc' = "exited"
  /\ UNCHANGED <<shiftUB, configLines, routeLines, inputLines, interfaces, routes,
                 dests, out, argIp, argMaskLen, result>>

\* parseInterfaces: getline returns a line and the loop body runs.
ParseInterfacesLine(lines) ==
  /\ pc = "parseInterfaces"
  /\ Len(configLines) < MaxConfigLines
  /\ \E line \in lines :
     \E uninit \in UninitFor(matchInterfaceRe(line), line.ip) :
       LET r == parseInterfacesStep(interfaces, line, uninit)
       IN  /\ configLines' = Append(configLines, line)
           /\ interfaces' = r.table
           /\ pc' = IF r.thrown THEN "terminated" ELSE pc
  /\ UNCHANGED <<shiftUB, routeLines, inputLines, routes, dests, out,
                 argIp, argMaskLen, result>>

\* parseInterfaces: getline fails at the end of the file; the vector is returned.
ParseInterfacesEof ==
  /\ pc = "parseInterfaces"
  /\ pc' = "parseRoutes"
  /\ UNCHANGED <<shiftUB, configLines, routeLines, inputLines, interfaces, routes,
                 dests, out, argIp, argMaskLen, result>>

\* parseRoutes: the route file cannot be opened, exit(-1).
ParseRoutesOpenFails ==
  /\ pc = "parseRoutes"
  /\ routeLines = <<>>
  /\ pc' = "exited"
  /\ UNCHANGED <<shiftUB, configLines, routeLines, inputLines, interfaces, routes,
                 dests, out, argIp, argMaskLen, result>>

ParseRoutesLine(lines) ==
  /\ pc = "parseRoutes"
  /\ Len(routeLines) < MaxRouteLines
  /\ \E line \in lines :
     \E uninit \in UninitFor(matchRouteRe(line), line.ip),
        uninitHop \in UninitFor(matchRouteRe(line), line.hop) :
       LET r == parseRoutesStep(routes, line, uninit, uninitHop)
       IN  /\ routeLines' = Append(routeLines, line)
           /\ routes' = r.table
           /\ pc' = IF r.thrown THEN "terminated" ELSE pc
  /\ UNCHANGED <<shiftUB, configLines, inputLines, interfaces, dests, out,
                 argIp, argMaskLen, result>>

ParseRoutesEof ==
  /\ pc = "parseRoutes"
  /\ pc' = "mainLoop"
  /\ UNCHANGED <<shiftUB, configLines, routeLines, inputLines, interfaces, routes,
                 dests, out, argIp, argMaskLen, result>>

\* main: the input or the output file cannot be opened, return -1.
StreamOpenFails ==
  /\ pc = "mainLoop"
  /\ inputLines = <<>>
  /\ pc' = "exited"
  /\ UNCHANGED <<shiftUB, configLines, routeLines, inputLines, interfaces, routes,
                 dests, out, argIp, argMaskLen, result>>

\* The main loop, were comment lines handed to ipToNum like any other line.
MainLoopLineCommentsProcessed(lines) ==
  /\ pc = "mainLoop"
  /\ Len(inputLines) < MaxInputLines
  /\ \E line \in lines :
     \E uninit \in UninitFor(~skipLine(line), lineFields(line)) :
       /\ inputLines' = Append(inputLines, line)
       /\ IF line.shape = "empty"
            THEN UNCHANGED <<dests, out>>
            ELSE LET dest == ipToNum(lineFields(line), uninit)
                 IN  /\ dests' = Append(dests, dest)
                     /\ out' = Append(out, processPacket(dest, interfaces, routes))
  /\ UNCHANGED <<pc, shiftUB, configLines, routeLines, interfaces, routes,
                 argIp, argMaskLen, result>>

\* One pass of while (std::getline(*in, line)) in main.
MainLoopLine(lines) ==
  /\ pc = "mainLoop"
  /\ Len(inputLines) < MaxInputLines
  /\ \E line \in lines :
     \E uninit \in UninitFor(~skipLine(line), lineFields(line)) :
       /\ inputLines' = Append(inputLines, line)
       /\ IF skipLine(line)
            THEN UNCHANGED <<dests, out>>
            ELSE LET dest == ipToNum(lineFields(line), uninit)
                 IN  /\ dests' = Append(dests, dest)
                     /\ out' = Append(out, processPacket(dest, interfaces, routes))
  /\ UNCHANGED <<pc, shiftUB, configLines, routeLines, interfaces, routes,
                 argIp, argMaskLen, result>>

MainLoopEof ==
  /\ pc = "mainLoop"
  /\ pc' = "done"
  /\ UNCHANGED <<shiftUB, configLines, routeLines, inputLines, interfaces, routes,
                 dests, out, argIp, argMaskLen, result>>

Next ==
  \/ ParseInterfacesOpenFails
  \/ ParseInterfacesLine(CoreConfigLines)
  \/ ParseInterfacesEof
  \/ ParseRoutesOpenFails
  \/ ParseRoutesLine(CoreRouteLines)
  \/ ParseRoutesEof
  \/ StreamOpenFails
  \/ MainLoopLine(CoreInputLines)
  \/ MainLoopEof

Spec == Init /\ [][Next]_vars

\* main on one interface and two routes, with every shape of input line.
NextStream ==
  \/ ParseInterfacesOpenFails
  \/ ParseInterfacesLine(StreamConfigLines)
  \/ ParseInterfacesEof
  \/ ParseRoutesOpenFails
  \/ ParseRoutesLine(StreamRouteLines)
  \/ ParseRoutesEof
  \/ StreamOpenFails
  \/ MainLoopLine(StreamInputLines)
  \/ MainLoopEof

SpecStream == Init /\ [][NextStream]_vars

\* The loaders alone, on files that hold every shape of line.
NextLoad ==
  \/ ParseInterfacesOpenFails
  \/ ParseInterfacesLine(AllConfigLines)
  \/ ParseInterfacesEof
  \/ ParseRoutesOpenFails
  \/ ParseRoutesLine(AllRouteLines)
  \/ ParseRoutesEof

SpecLoad == Init /\ [][NextLoad]_vars

\* applyMask called on its own.
InitMask ==
  /\ pc = "applyMask"
  /\ shiftUB \in ShiftOutcomes
  /\ configLines = <<>>
  /\ routeLines = <<>>
  /\ inputLines = <<>>
  /\ interfaces = <<>>
  /\ routes = <<>>
  /\ dests = <<>>
  /\ out = <<>>
  /\ argIp \in MaskIps
  /\ argMaskLen \in 0..MaxMaskLen
  /\ result = <<>>

ApplyMaskCall ==
  /\ pc = "applyMask"
  /\ result' = <<applyMask(argIp, argMaskLen)>>
  /\ pc' = "returned"
  /\ UNCHANGED <<shiftUB, configLines, routeLines, inputLines, interfaces, routes,
                 dests, out, argIp, argMaskLen>>

NextMask == ApplyMaskCall

SpecMask == InitMask /\ [][NextMask]_vars

(***************************************************************************)
(* Properties.                                                             *)
(***************************************************************************)
\* dest is on the subnet of table entry e (an interface or a route).
OnSubnet(dest, e) == applyMask(dest, e.maskLen) = e.network

Matching(dest, table) == {i \in 1..Len(table) : OnSubnet(dest, table[i])}

Least(S) == CHOOSE j \in S : \A i \in S : j <= i

\* The matching route of largest maskLen, the lowest index among equals; 0 if none.
LongestFirst(dest, rts) ==
  LET M == Matching(dest, rts)
      top == {j \in M : \A i \in M : rts[i].maskLen <= rts[j].maskLen}
  IN  IF M = {} THEN 0 ELSE Least(top)

Addr(a, b, c, d) == ipToNum(<<a, b, c, d>>, <<0, 0, 0, 0>>)

Permuted(table, p) == [i \in 1..Len(table) |-> table[p[i]]]

\* C1 (as claimed): a destination on the subnet of some interface gets the
\* local-delivery decision naming the first such interface in table order,
\* whatever the routes are.
C1_DirectDelivery ==
  \A k \in 1..Len(out) :
    LET M == Matching(dests[k], interfaces)
    IN  M # {} => /\ out[k].msg = MsgDirect
                  /\ out[k].name = interfaces[Least(M)].name

\* C2: for every processed destination, findRoute returns nullptr exactly when
\* no route matches; otherwise the route it returns matches the destination and
\* no matching route has a larger maskLen; and for every permutation of the
\* route list the maskLen of the returned route is the same.
C2_LongestPrefixWins ==
  \A k \in 1..Len(dests) :
    LET dest == dests[k]
        r == findRoute(dest, routes)
    IN  /\ (r = 0) <=> (Matching(dest, routes) = {})
        /\ r # 0 => /\ r \in Matching(dest, routes)
                    /\ \A j \in Matching(dest, routes) :
                         routes[j].maskLen <= routes[r].maskLen
        /\ \A p \in Permutations(1..Len(routes)) :
             LET q == Permuted(routes, p)
                 rq == findRoute(dest, q)
             IN  /\ (rq = 0) <=> (r = 0)
                 /\ rq # 0 => q[rq].maskLen = routes[r].maskLen

\* 10.0.0.0/8 precedes 10.1.0.0/16 in the table, 10.1.2.3 was processed and
\* the /16 route was reported.
C2_Witness ==
  /\ Len(routes) = 2
  /\ routes[1].maskLen = 8
  /\ routes[2].maskLen = 16
  /\ \E k \in 1..Len(out) :
       /\ dests[k] = Addr(10, 1, 2, 3)
       /\ Matching(dests[k], routes) = {1, 2}
       /\ out[k].hop = numToIP(routes[2].nextHop)

\* C3: among the matching routes of largest maskLen findRoute returns the one
\* of lowest index, and the next hop of a forwarded decision is that route's.
C3_FirstOfEqualsWins ==
  \A k \in 1..Len(dests) :
    LET dest == dests[k]
        r == findRoute(dest, routes)
    IN  /\ r # 0 => \A j \in Matching(dest, routes) :
                      routes[j].maskLen = routes[r].maskLen => r <= j
        /\ out[k].msg = MsgForwarded =>
             out[k].hop = numToIP(routes[LongestFirst(dest, routes)].nextHop)

\* Two routes with the same network and maskLen and different next hops both
\* match a processed destination, and the first one's next hop was reported.
C3_Witness ==
  /\ Len(routes) = 2
  /\ routes[1].network = routes[2].network
  /\ routes[1].maskLen = routes[2].maskLen
  /\ routes[1].nextHop # routes[2].nextHop
  /\ \E k \in 1..Len(out) :
       /\ Matching(dests[k], routes) = {1, 2}
       /\ out[k].msg = MsgForwarded
       /\ out[k].hop = numToIP(routes[1].nextHop)

\* C4: a destination on no interface subnet gets the no-route line (with no
\* interface and no next hop) exactly when no route matches it; and when the
\* table holds a route of maskLen 0 no destination gets the no-route line.
C4_NoRouteIffNoMatch ==
  /\ \A k \in 1..Len(out) :
       Matching(dests[k], interfaces) = {} =>
         /\ (out[k].msg = MsgNoRoute) <=> (Matching(dests[k], routes) = {})
         /\ out[k].msg = MsgNoRoute => out[k] = Decision(MsgNoRoute, numToIP(dests[k]), "", <<>>)
  /\ (\E j \in 1..Len(routes) : routes[j].maskLen = 0) =>
       \A k \in 1..Len(out) : out[k].msg # MsgNoRoute

\* 8.8.8.8 was processed with routes that cover only 10.0.0.0/8.
C4_Witness ==
  /\ Len(routes) >= 1
  /\ \A j \in 1..Len(routes) : routes[j].network = Addr(10, 0, 0, 0) /\ routes[j].maskLen = 8
  /\ \E k \in 1..Len(out) :
       /\ dests[k] = Addr(8, 8, 8, 8)
       /\ Matching(dests[k], interfaces) = {}
       /\ out[k].msg = MsgNoRoute

\* C5: when a route matches, the decision is the bad-next-hop line if the next
\* hop of the longest-prefix route is on no interface subnet, and otherwise the
\* forwarded line naming the first interface that holds the next hop, with that
\* next hop; the bad-next-hop line is not the no-route line.
C5_NextHopResolution ==
  /\ MsgBadNextHop # MsgNoRoute
  /\ \A k \in 1..Len(out) :
       LET r == LongestFirst(dests[k], routes)
       IN  r # 0 =>
             LET H == Matching(routes[r].nextHop, interfaces)
             IN  /\ H = {} => out[k] = Decision(MsgBadNextHop, numToIP(dests[k]), "", <<>>)
                 /\ H # {} => out[k] = Decision(MsgForwarded, numToIP(dests[k]),
                                                interfaces[Least(H)].name,
                                                numToIP(routes[r].nextHop))

\* One decision is the bad-next-hop line although interfaces are loaded, and
\* another names the first of two interfaces that both hold the next hop.
C5_Witness ==
  /\ Len(interfaces) = 2
  /\ \E k \in 1..Len(out) : out[k].msg = MsgBadNextHop
  /\ \E k \in 1..Len(out) :
       /\ out[k].msg = MsgForwarded
       /\ Matching(routes[LongestFirst(dests[k], routes)].nextHop, interfaces) = {1, 2}
       /\ out[k].name = interfaces[1].name

\* C6 (as claimed): every loaded entry has maskLen in 0..32.
C6_MaskLenInRange ==
  /\ \A i \in 1..Len(interfaces) : interfaces[i].maskLen \in 0..W
  /\ \A j \in 1..Len(routes) : routes[j].maskLen \in 0..W

\* C7: every loaded route's network is unchanged by masking it again, every
\* loaded interface's network is its ip masked by its maskLen, and an entry
\* whose maskLen is within the word has no bit set below its prefix.
C7_NetworksAreMasked ==
  /\ \A j \in 1..Len(routes) :
       /\ applyMask(routes[j].network, routes[j].maskLen) = routes[j].network
       /\ routes[j].maskLen <= W =>
            \A b \in (routes[j].maskLen + 1)..W : routes[j].network[b] = 0
  /\ \A i \in 1..Len(interfaces) :
       /\ interfaces[i].network = applyMask(interfaces[i].ip, interfaces[i].maskLen)
       /\ interfaces[i].maskLen <= W =>
            \A b \in (interfaces[i].maskLen + 1)..W : interfaces[i].network[b] = 0

\* The route line 10.1.2.3/8 was loaded and is stored as 10.0.0.0/8, next to an
\* interface whose ip has host bits.
C7_Witness ==
  /\ pc = "mainLoop"
  /\ \E j \in 1..Len(routes) :
       /\ routeLines[j].ip = <<10, 1, 2, 3>>
       /\ routes[j].network = Addr(10, 0, 0, 0)
       /\ routes[j].maskLen = 8
  /\ \E i \in 1..Len(interfaces) : interfaces[i].network # interfaces[i].ip

\* C8: for maskLen in 0..32 applyMask returns ip with its top maskLen bits kept
\* and the other bits cleared; it returns 0 for maskLen 0 and ip for maskLen 32.
C8_ApplyMaskKeepsPrefix ==
  (result # <<>> /\ argMaskLen \in 0..W) =>
    /\ result[1] = [i \in 1..W |-> IF i <= argMaskLen THEN argIp[i] ELSE 0]
    /\ argMaskLen = 0 => result[1] = Zero
    /\ argMaskLen = W => result[1] = argIp

\* applyMask(192.168.1.50, 24) has returned 192.168.1.0.
C8_Witness ==
  /\ result = <<Addr(192, 168, 1, 0)>>
  /\ argIp = Addr(192, 168, 1, 50)
  /\ argMaskLen = 24

\* The entries a loader can make of a line that matches its pattern.
InterfaceEntriesOf(line) ==
  { InterfaceEntry(line.name, ipToNum(line.ip, u), stoi(line.mask).value,
                   applyMask(ipToNum(line.ip, u), stoi(line.mask).value)) :
      u \in UninitFor(TRUE, line.ip) }

RouteEntriesOf(line) ==
  { RouteEntry(applyMask(ipToNum(line.ip, u), stoi(line.mask).value), stoi(line.mask).value,
               ipToNum(line.hop, v)) :
      u \in UninitFor(TRUE, line.ip), v \in UninitFor(TRUE, line.hop) }

C10_State ==
  LET live == SelectSeq(inputLines, LAMBDA l : ~skipLine(l))
  IN  /\ Len(out) = Len(live)
      /\ Len(dests) = Len(live)
      /\ \A k \in 1..Len(live) :
           /\ dests[k] \in {ipToNum(lineFields(live[k]), u) :
                              u \in UninitFor(TRUE, lineFields(live[k]))}
           /\ out[k].ip = numToIP(dests[k])
           /\ out[k] = processPacket(dests[k], interfaces, routes)
      /\ \A j, k \in 1..Len(out) : dests[j] = dests[k] => out[j] = out[k]

\* In every step of the main loop: the tables stay as they are and the lines
\* already written stay as written.
C10_Step ==
  pc = "mainLoop" =>
    /\ interfaces' = interfaces
    /\ routes' = routes
    /\ SubSeq(out', 1, Len(out)) = out

====
